---- MODULE Spec2Model ----
(***************************************************************************)
(* A model of src/AWS-SQS/aws_sqs_impl.py: the SQSManager wrapper, the     *)
(* callers that use it (a producer, two consumers that each invoke         *)
(* process_messages) and the queue service behind the boto3 client.        *)
(*                                                                         *)
(* The wrapper's methods are translated from the source.  The queue        *)
(* service is not part of the repository: its behaviour (visibility        *)
(* window, receipt tokens, content-based deduplication, the per-call       *)
(* batch cap) is taken from the data model of spec.md and kept in the      *)
(* definitions whose names start with Svc.                                 *)
(***************************************************************************)
EXTENDS Integers, Sequences, FiniteSets, TLC

\* ----------------------------------------------------------------- bounds
MaxSends == 2        \* send_message calls made by the producer
MaxCalls == 2        \* process_messages invocations, all consumers together
MaxExpiries == 1     \* visibility-window expiries
MaxFaults == 1       \* transport faults (ClientError) injected
MaxWindows == 1      \* deduplication-window expiries
MaxBatchLen == 12    \* longest list handed to send_message_batch

Consumers == {"c1", "c2"}

\* --------------------------------------------------------- program values
ReceiveMax == 10     \* receive_messages(max_messages=10)
SvcBatchCap == 10    \* the service's cap on the entries of one batch call

None == "None"
QueueBase == "orders"

\* Python values that callers pass as message bodies, and what the handler
\* is given.  A dict (string keys, JSON values) or a str that holds a text.
DictS(n) == [ty |-> "dict", sub |-> "strkeys", n |-> n]
StrWord(n) == [ty |-> "str", sub |-> "word", n |-> n]   \* e.g. "hello"
StrNum(n) == [ty |-> "str", sub |-> "num", n |-> n]     \* e.g. "123"
PyInt(n) == [ty |-> "int", sub |-> "", n |-> n]
NoArg == [ty |-> "none", sub |-> "", n |-> 0]

Bodies == {DictS(1), StrWord(1), StrNum(1)}

\* Texts on the wire: a JSON object, a JSON number, or a word that is no JSON.
Text(kind, n) == [txt |-> kind, n |-> n]

\* json.dumps of a dict: the text of a JSON object.
json_dumps(v) == Text("obj", v.n)

\* json.loads: an object text gives a dict with string keys, a number text an
\* int; a word is no JSON document and raises JSONDecodeError.
json_loads_raises(t) == t.txt = "word"

json_loads(t) == IF t.txt = "obj" THEN DictS(t.n) ELSE PyInt(t.n)

\* send_message: 'MessageBody': json.dumps(b) if isinstance(b, dict) else b
MessageBody(v) == IF v.ty = "dict" THEN json_dumps(v) ELSE Text(v.sub, v.n)

PyList(items) == [ty |-> "list", items |-> items]
PyNone == [ty |-> "None", items |-> <<>>]

\* ------------------------------------------------------------ create_queue
create_queue_name(queue_name, fifo) ==
    IF fifo THEN queue_name \o ".fifo" ELSE queue_name

create_queue_attributes_nodedup(fifo) ==
    IF fifo THEN {"FifoQueue"} ELSE {}

create_queue_attributes(fifo) ==
    IF fifo THEN {"FifoQueue", "ContentBasedDeduplication"} ELSE {}

\* The value create_queue returns once the service has answered with QueueUrl.
create_queue_ret(queue_url) == None

SvcQueueUrl(name) == "https://sqs/" \o name

\* ------------------------------------------------- the wrapper's results
\* receive_messages: response.get('Messages', []), and [] on ClientError.
receive_messages_ret_none(outcome, messages) ==
    IF outcome = "ClientError" THEN PyNone ELSE PyList(messages)

receive_messages_ret(outcome, messages) ==
    IF outcome = "ClientError" THEN PyList(<<>>) ELSE PyList(messages)

\* delete_message: True, and False on ClientError.
delete_message_ret_true(outcome) == TRUE

delete_message_ret(outcome) == outcome # "ClientError"

\* process_messages, the except block of the loop body: the exception is
\* logged and the loop goes on ("caught"), and nothing is deleted.
OnHandlerException_propagate == "propagate"

OnHandlerException == "caught"

ExceptBlockDeletes_yes == TRUE

ExceptBlockDeletes == FALSE

\* process_messages after the for loop: the function ends.
AfterLoop_again == "polling"

AfterLoop == "returned"

VARIABLES
    cons,        \* the consumers that run
    queue,       \* the service's queue: [exists, fifoReq, name, attrs]
    createRet,   \* what create_queue returned ("unset" before the call)
    handle,      \* the callers' queue_url variable
    sendRaised,  \* a send_message call raised past the wrapper
    msgs,        \* the service's messages, by message id
    dedupSeen,   \* bodies sent in the current deduplication window
    nSends,      \* send_message calls made
    windows,     \* deduplication windows elapsed
    deliv,       \* deliveries, by receipt handle
    pc,          \* each consumer's position in process_messages
    batch,       \* each consumer's `messages` (what receive_messages returned)
    idx,         \* each consumer's position in the for loop
    recvFault,   \* each consumer's last receive hit a transport fault
    recvInCall,  \* receives issued by the current process_messages invocation
    calls,       \* process_messages invocations made so far
    faults,      \* transport faults so far
    expiries,    \* visibility-window expiries so far
    bIn,         \* send_message_batch: the `messages` argument
    bCalls,      \* send_message_batch: the Entries of each transport call
    bRet         \* send_message_batch: the returned value

setupVars == <<cons, queue, createRet, handle, sendRaised>>
prodVars == <<dedupSeen, nSends, windows>>
consVars == <<pc, batch, idx, recvFault, recvInCall, calls>>
batchVars == <<bIn, bCalls, bRet>>
vars == <<setupVars, prodVars, msgs, deliv, consVars, faults, expiries, batchVars>>

NoBatchRet == [ty |-> "unset", ok |-> {}, failed |-> {}]

NoQueue == [exists |-> FALSE, fifoReq |-> FALSE, name |-> "", attrs |-> {}]

\* Nothing sent, nothing received, no batch call made.
Idle ==
    /\ sendRaised = FALSE
    /\ msgs = <<>>
    /\ dedupSeen = {}
    /\ nSends = 0
    /\ windows = 0
    /\ deliv = <<>>
    /\ pc = [c \in Consumers |-> "idle"]
    /\ batch = [c \in Consumers |-> PyList(<<>>)]
    /\ idx = [c \in Consumers |-> 0]
    /\ recvFault = [c \in Consumers |-> FALSE]
    /\ recvInCall = [c \in Consumers |-> 0]
    /\ calls = 0
    /\ expiries = 0
    /\ bIn = <<>>
    /\ bCalls = <<>>
    /\ bRet = NoBatchRet

\* After construction: SQSManager() holds a client and nothing else; one
\* consumer will run.
Init ==
    /\ cons = {"c1"}
    /\ queue = NoQueue
    /\ createRet = "unset"
    /\ handle = "unset"
    /\ faults = 0
    /\ Idle

\* A transport call's outcome: the service answers, or the call fails with
\* ClientError (while the fault budget lasts).
Outcomes == {"ok"} \cup (IF faults < MaxFaults THEN {"ClientError"} ELSE {})

Fault(outcome) == faults' = IF outcome = "ClientError" THEN faults + 1 ELSE faults

\* ---------------------------------------------------------------- service
SvcDedup == {"FifoQueue", "ContentBasedDeduplication"} \subseteq queue.attrs

RECURSIVE SvcVisibleFrom(_)
SvcVisibleFrom(m) ==
    IF m > Len(msgs) THEN <<>>
    ELSE IF msgs[m].st = "visible" THEN <<m>> \o SvcVisibleFrom(m + 1)
    ELSE SvcVisibleFrom(m + 1)

\* ReceiveMessage: up to max_messages of the visible messages, oldest first.
SvcReceive(max_messages) ==
    LET v == SvcVisibleFrom(1)
    IN  IF Len(v) <= max_messages THEN v ELSE SubSeq(v, 1, max_messages)

\* A token that names an in-flight message, current or not.
SvcTokenValid_stale(rh) ==
    /\ rh \in 1..Len(deliv)
    /\ msgs[deliv[rh].mid].st = "inflight"

\* A receipt token is valid while it is the token of the message's current
\* delivery: until the message is deleted or its visibility window elapses.
SvcTokenValid(rh) ==
    /\ rh \in 1..Len(deliv)
    /\ msgs[deliv[rh].mid].st = "inflight"
    /\ msgs[deliv[rh].mid].rh = rh

\* DeleteMessage with a token: "ok", or "ClientError" for a token that is
\* consumed, expired or foreign.
SvcDeleteOutcome(rh, transport) ==
    IF transport = "ok" /\ SvcTokenValid(rh) THEN "ok" ELSE "ClientError"

\* ------------------------------------------------------------- the callers
\* queue_url = sqs.create_queue(name, fifo), as the module's usage does.
CreateQueue(fifo) ==
    /\ createRet = "unset"
    /\ \E outcome \in Outcomes :
          /\ Fault(outcome)
          /\ IF outcome = "ok"
             THEN /\ queue' = [exists |-> TRUE, fifoReq |-> fifo,
                               name |-> create_queue_name(QueueBase, fifo),
                               attrs |-> create_queue_attributes(fifo)]
                  /\ createRet' = create_queue_ret(
                         SvcQueueUrl(create_queue_name(QueueBase, fifo)))
             ELSE /\ queue' = [queue EXCEPT !.fifoReq = fifo]
                  /\ createRet' = None
    /\ handle' = createRet'
    /\ UNCHANGED <<cons, sendRaised, prodVars, msgs, deliv, consVars, expiries,
                   batchVars>>

\* queue_url = sqs.get_queue_url(name): the queue's URL, None on ClientError.
GetQueueUrl ==
    /\ createRet # "unset"
    /\ handle = None
    /\ \E outcome \in Outcomes :
          /\ Fault(outcome)
          /\ handle' = IF outcome = "ok" /\ queue.exists
                       THEN SvcQueueUrl(queue.name) ELSE None
    /\ UNCHANGED <<cons, queue, createRet, sendRaised, prodVars, msgs, deliv,
                   consVars, expiries, batchVars>>

HandleUsable == queue.exists /\ handle = SvcQueueUrl(queue.name)

\* sqs.send_message(queue_url, body) with the value create_queue returned:
\* QueueUrl=None fails the client's parameter validation, which is no
\* ClientError and leaves send_message as an exception.
SendUnusable ==
    /\ handle = None
    /\ ~sendRaised
    /\ sendRaised' = TRUE
    /\ UNCHANGED <<cons, queue, createRet, handle, prodVars, msgs, deliv,
                   consVars, faults, expiries, batchVars>>

SvcStored(v, body) ==
    [sent |-> v, body |-> body, st |-> "visible", rh |-> 0, epoch |-> windows,
     delBy |-> "", delOwner |-> ""]

\* sqs.send_message(queue_url, body): the body is serialized and transmitted.
\* On a deduplicating queue a body already sent in this window is accepted
\* and not stored again.
Send(v) ==
    /\ HandleUsable
    /\ nSends < MaxSends
    /\ nSends' = nSends + 1
    /\ windows' = windows
    /\ \E outcome \in Outcomes :
          /\ Fault(outcome)
          /\ IF outcome = "ClientError" \/ (SvcDedup /\ MessageBody(v) \in dedupSeen)
             THEN UNCHANGED <<msgs, dedupSeen>>
             ELSE /\ msgs' = Append(msgs, SvcStored(v, MessageBody(v)))
                  /\ dedupSeen' = IF SvcDedup
                                  THEN dedupSeen \cup {MessageBody(v)}
                                  ELSE dedupSeen
    /\ UNCHANGED <<setupVars, deliv, consVars, expiries, batchVars>>

\* The deduplication window elapses.
DedupExpire ==
    /\ SvcDedup
    /\ dedupSeen # {}
    /\ windows < MaxWindows
    /\ windows' = windows + 1
    /\ dedupSeen' = {}
    /\ UNCHANGED <<setupVars, nSends, msgs, deliv, consVars, faults, expiries,
                   batchVars>>

\* The visibility window of an in-flight message elapses: it is visible again
\* and the token of its delivery is void.
ExpireVisibility(m) ==
    /\ msgs[m].st = "inflight"
    /\ expiries < MaxExpiries
    /\ expiries' = expiries + 1
    /\ msgs' = [msgs EXCEPT ![m].st = "visible", ![m].rh = 0]
    /\ UNCHANGED <<setupVars, prodVars, deliv, consVars, faults, batchVars>>

\* --------------------------------------------------------- process_messages
\* The message a receipt handle was handed out for, as the consumer holds it.
BodyOf(rh) == msgs[deliv[rh].mid].body

Current(c) == batch[c].items[idx[c]]

\* The service's part of delete_message(queue_url, rh) called by consumer c.
SvcDelete(c, rh, transport) ==
    IF SvcDeleteOutcome(rh, transport) = "ok"
    THEN [msgs EXCEPT ![deliv[rh].mid] =
             [@ EXCEPT !.st = "deleted", !.rh = 0, !.delBy = c,
                       !.delOwner = deliv[msgs[deliv[rh].mid].rh].to]]
    ELSE msgs

BoolStr(b) == IF b THEN "True" ELSE "False"

\* The for loop moves to the next message, or ends.
Advance(c) ==
    IF idx[c] < Len(batch[c].items)
    THEN /\ pc' = [pc EXCEPT ![c] = "loop"]
         /\ idx' = [idx EXCEPT ![c] = @ + 1]
    ELSE /\ pc' = [pc EXCEPT ![c] = AfterLoop]
         /\ idx' = [idx EXCEPT ![c] = 0]

\* except Exception as e: the error is logged, nothing else is done.
ExceptPath(c, how) ==
    LET rh == Current(c)
    IN  /\ IF ExceptBlockDeletes
           THEN /\ msgs' = SvcDelete(c, rh, "ok")
                /\ deliv' = [deliv EXCEPT ![rh].st = how, ![rh].dels = @ + 1]
           ELSE /\ msgs' = msgs
                /\ deliv' = [deliv EXCEPT ![rh].st = how]
        /\ IF OnHandlerException = "caught"
           THEN Advance(c)
           ELSE /\ pc' = [pc EXCEPT ![c] = "raised"]
                /\ idx' = idx

\* process_messages(queue_url, processor_func) up to the loop: one
\* receive_messages(queue_url) call with the default max_messages.
ProcessMessages(c) ==
    /\ pc[c] \in {"idle", "returned", "polling"}
    /\ HandleUsable
    /\ calls < MaxCalls
    /\ calls' = calls + 1
    /\ recvInCall' = [recvInCall EXCEPT
                         ![c] = IF pc[c] = "polling" THEN @ + 1 ELSE 1]
    /\ \E outcome \in Outcomes :
          LET got == IF outcome = "ok" THEN SvcReceive(ReceiveMax) ELSE <<>>
              base == Len(deliv)
              tokens == [i \in 1..Len(got) |-> base + i]
              ret == receive_messages_ret(outcome, tokens)
          IN  /\ Fault(outcome)
              /\ recvFault' = [recvFault EXCEPT ![c] = (outcome = "ClientError")]
              /\ msgs' = [m \in 1..Len(msgs) |->
                            IF \E i \in 1..Len(got) : got[i] = m
                            THEN [msgs[m] EXCEPT
                                     !.st = "inflight",
                                     !.rh = base + (CHOOSE i \in 1..Len(got) :
                                                       got[i] = m)]
                            ELSE msgs[m]]
              /\ deliv' = deliv \o
                            [i \in 1..Len(got) |->
                               [mid |-> got[i], to |-> c, st |-> "pending",
                                arg |-> NoArg, dels |-> 0, delRet |-> "none",
                                again |-> "none"]]
              /\ batch' = [batch EXCEPT ![c] = ret]
              /\ IF ret.ty # "list"
                 THEN /\ pc' = [pc EXCEPT ![c] = "raised"]
                      /\ idx' = [idx EXCEPT ![c] = 0]
                 ELSE IF Len(ret.items) = 0
                 THEN /\ pc' = [pc EXCEPT ![c] = AfterLoop]
                      /\ idx' = [idx EXCEPT ![c] = 0]
                 ELSE /\ pc' = [pc EXCEPT ![c] = "loop"]
                      /\ idx' = [idx EXCEPT ![c] = 1]
    /\ UNCHANGED <<setupVars, prodVars, expiries, batchVars>>

\* The loop body up to the handler: body = json.loads(message['Body']), then
\* processor_func(body) is entered; a body that is no JSON raises instead.
Dispatch(c) ==
    /\ pc[c] = "loop"
    /\ IF json_loads_raises(BodyOf(Current(c)))
       THEN ExceptPath(c, "decodeRaised")
       ELSE /\ deliv' = [deliv EXCEPT
                            ![Current(c)].st = "handling",
                            ![Current(c)].arg = json_loads(BodyOf(Current(c)))]
            /\ pc' = [pc EXCEPT ![c] = "handling"]
            /\ UNCHANGED <<msgs, idx>>
    /\ UNCHANGED <<setupVars, prodVars, batch, recvFault, recvInCall, calls,
                   faults, expiries, batchVars>>

\* processor_func returns: delete_message(queue_url, message['ReceiptHandle']).
HandlerReturn(c) ==
    /\ pc[c] = "handling"
    /\ \E outcome \in Outcomes :
          /\ Fault(outcome)
          /\ msgs' = SvcDelete(c, Current(c), outcome)
          /\ deliv' = [deliv EXCEPT
                          ![Current(c)].st = "ok",
                          ![Current(c)].dels = @ + 1,
                          ![Current(c)].delRet =
                              BoolStr(delete_message_ret(
                                  SvcDeleteOutcome(Current(c), outcome)))]
    /\ Advance(c)
    /\ UNCHANGED <<setupVars, prodVars, batch, recvFault, recvInCall, calls,
                   expiries, batchVars>>

\* processor_func raises.
HandlerRaise(c) ==
    /\ pc[c] = "handling"
    /\ ExceptPath(c, "handlerRaised")
    /\ UNCHANGED <<setupVars, prodVars, batch, recvFault, recvInCall, calls,
                   faults, expiries, batchVars>>

\* A caller's own delete_message(queue_url, rh) with a handle that a delete
\* has consumed already.
DeleteAgain(c, rh) ==
    /\ pc[c] = "returned"
    /\ deliv[rh].to = c
    /\ deliv[rh].delRet = "True"
    /\ deliv[rh].again = "none"
    /\ \E outcome \in Outcomes :
          /\ Fault(outcome)
          /\ msgs' = SvcDelete(c, rh, outcome)
          /\ deliv' = [deliv EXCEPT
                          ![rh].again = BoolStr(delete_message_ret(
                                            SvcDeleteOutcome(rh, outcome)))]
    /\ UNCHANGED <<setupVars, prodVars, consVars, expiries, batchVars>>

\* -------------------------------------------------------- send_message_batch
\* The list a caller hands over: dicts and plain strings in turn.
BatchMessages(n) == [i \in 1..n |-> IF i % 2 = 1 THEN DictS(i) ELSE StrWord(i)]

\* Entries are built from the first SvcBatchCap messages only.
send_message_batch_entries_capped(messages) ==
    [i \in 1..(IF Len(messages) <= SvcBatchCap THEN Len(messages) ELSE SvcBatchCap) |->
        [Id |-> i - 1, MessageBody |-> MessageBody(messages[i])]]

\* for i, msg in enumerate(messages): entries.append({'Id': str(i), ...})
send_message_batch_entries(messages) ==
    [i \in 1..Len(messages) |->
        [Id |-> i - 1, MessageBody |-> MessageBody(messages[i])]]

\* return response, and None on ClientError.
send_message_batch_ret(outcome, response) ==
    IF outcome = "ClientError" THEN [ty |-> "None", ok |-> {}, failed |-> {}]
    ELSE response

EntryIds(entries) == {entries[i].Id : i \in 1..Len(entries)}

\* SendMessageBatch refuses an empty request and one of more than the cap.
SvcBatchOutcome(entries, transport) ==
    IF transport = "ClientError" \/ Len(entries) = 0 \/ Len(entries) > SvcBatchCap
    THEN "ClientError" ELSE "ok"

RECURSIVE SvcStoreBatch(_, _, _, _)
SvcStoreBatch(messages, entries, failed, i) ==
    IF i > Len(entries) THEN <<>>
    ELSE (IF entries[i].Id \in failed THEN <<>>
          ELSE <<SvcStored(messages[i], entries[i].MessageBody)>>)
         \o SvcStoreBatch(messages, entries, failed, i + 1)

\* sqs.send_message_batch(queue_url, messages): every message becomes an
\* entry, and all entries go out in one transport call; the service rejects
\* the entries in `failed`.
SendBatch(n, failed) ==
    /\ HandleUsable
    /\ bCalls = <<>>
    /\ \E transport \in Outcomes :
          LET messages == BatchMessages(n)
              entries == send_message_batch_entries(messages)
              outcome == SvcBatchOutcome(entries, transport)
          IN  /\ Fault(transport)
              /\ failed \subseteq EntryIds(entries)
              /\ outcome = "ClientError" => failed = {}
              /\ bIn' = messages
              /\ bCalls' = <<entries>>
              /\ bRet' = send_message_batch_ret(outcome,
                            [ty |-> "response",
                             ok |-> EntryIds(entries) \ failed,
                             failed |-> failed])
              /\ msgs' = IF outcome = "ok"
                         THEN msgs \o SvcStoreBatch(messages, entries, failed, 1)
                         ELSE msgs
    /\ UNCHANGED <<setupVars, prodVars, deliv, consVars, expiries>>

\* ---------------------------------------------------------- specifications
\* A standard queue, one producer, one consumer.
Next ==
    \/ CreateQueue(FALSE)
    \/ GetQueueUrl
    \/ SendUnusable
    \/ \E v \in Bodies : Send(v)
    \/ \E m \in 1..Len(msgs) : ExpireVisibility(m)
    \/ \E c \in cons : ProcessMessages(c)
    \/ \E c \in cons : Dispatch(c)
    \/ \E c \in cons : HandlerReturn(c)
    \/ \E c \in cons : HandlerRaise(c)
    \/ \E c \in cons : \E rh \in 1..Len(deliv) : DeleteAgain(c, rh)

Spec == Init /\ [][Next]_vars

\* A FIFO queue, one producer, one consumer.
FifoNext ==
    \/ CreateQueue(TRUE)
    \/ GetQueueUrl
    \/ \E v \in Bodies : Send(v)
    \/ DedupExpire
    \/ \E m \in 1..Len(msgs) : ExpireVisibility(m)
    \/ \E c \in cons : ProcessMessages(c)
    \/ \E c \in cons : Dispatch(c)
    \/ \E c \in cons : HandlerReturn(c)
    \/ \E c \in cons : HandlerRaise(c)

FifoSpec == Init /\ [][FifoNext]_vars

\* Two consumers on a standard queue that exists, over a transport without
\* faults.
ConcInit ==
    /\ cons = Consumers
    /\ queue = [exists |-> TRUE, fifoReq |-> FALSE,
                name |-> create_queue_name(QueueBase, FALSE),
                attrs |-> create_queue_attributes(FALSE)]
    /\ createRet = create_queue_ret(SvcQueueUrl(create_queue_name(QueueBase, FALSE)))
    /\ handle = SvcQueueUrl(create_queue_name(QueueBase, FALSE))
    /\ faults = MaxFaults
    /\ Idle

ConcNext ==
    \/ \E v \in Bodies : Send(v)
    \/ \E m \in 1..Len(msgs) : ExpireVisibility(m)
    \/ \E c \in cons : ProcessMessages(c)
    \/ \E c \in cons : Dispatch(c)
    \/ \E c \in cons : HandlerReturn(c)
    \/ \E c \in cons : HandlerRaise(c)

ConcSpec == ConcInit /\ [][ConcNext]_vars

\* One send_message_batch call on a standard queue.
BatchNext ==
    \/ CreateQueue(FALSE)
    \/ GetQueueUrl
    \/ \E n \in 0..MaxBatchLen : \E failed \in SUBSET (0..(n - 1)) : SendBatch(n, failed)

BatchSpec == Init /\ [][BatchNext]_vars

\* ------------------------------------------------------------------ claims
Handles == 1..Len(deliv)
Mids == 1..Len(msgs)
HandlerEntered(rh) == deliv[rh].st \in {"handling", "ok", "handlerRaised"}
Finished(rh) == deliv[rh].st \in {"ok", "handlerRaised", "decodeRaised"}

\* C1: a message whose handler raised gets no delete_message call for the
\* receipt handle of that delivery and is not removed by it (only the delete
\* of another, successful delivery removes it); once its visibility window
\* has elapsed, the next receive that the transport answers returns it again.
C1_FailedLeftForRedelivery ==
    /\ [](\A rh \in Handles :
            deliv[rh].st = "handlerRaised" =>
              /\ deliv[rh].dels = 0
              /\ deliv[rh].delRet = "none"
              /\ msgs[deliv[rh].mid].st = "deleted" =>
                   \E other \in Handles \ {rh} :
                      /\ deliv[other].mid = deliv[rh].mid
                      /\ deliv[other].delRet = "True")
    /\ [][\A c \in Consumers :
            (ProcessMessages(c) /\ ~recvFault'[c]) =>
               \A rh \in Handles :
                  (deliv[rh].st = "handlerRaised"
                     /\ msgs[deliv[rh].mid].st = "visible")
                  => \E i \in 1..Len(batch'[c].items) :
                        deliv'[batch'[c].items[i]].mid = deliv[rh].mid]_vars

\* C1 witness: a message whose handler raised has been delivered a second time.
C1_Witness ==
    \E rh1 \in Handles : \E rh2 \in Handles :
       /\ rh1 < rh2
       /\ deliv[rh1].mid = deliv[rh2].mid
       /\ deliv[rh1].st = "handlerRaised"
       /\ msgs[deliv[rh1].mid].st = "inflight"

\* C2: a delivery whose handler completed got exactly one delete_message
\* call from the loop (and no other delivery got any), and a further
\* delete_message with a handle that a delete has consumed returns False.
C2_DeleteOnceThenFalse ==
    /\ \A rh \in Handles :
          /\ deliv[rh].st = "ok" => deliv[rh].dels = 1 /\ deliv[rh].delRet # "none"
          /\ deliv[rh].st # "ok" => deliv[rh].dels = 0
    /\ \A rh \in Handles : deliv[rh].again \in {"none", "False"}

\* C2 witness: a consumed handle was used for a second delete_message.
C2_Witness ==
    \E rh \in Handles :
       /\ deliv[rh].st = "ok"
       /\ deliv[rh].delRet = "True"
       /\ deliv[rh].again = "False"

C4_CreateReturnsHandle ==
    queue.exists => createRet = SvcQueueUrl(queue.name)

C7_LoopNeverEnds ==
    \A c \in Consumers : pc[c] # "returned"

\* C7 (amended): one invocation of process_messages issues one receive and
\* returns after that cycle; it does not poll again.
C7_OneCyclePerCall ==
    \A c \in Consumers :
       /\ recvInCall[c] <= 1
       /\ pc[c] # "polling"
       /\ pc[c] = "idle" <=> recvInCall[c] = 0

\* C7 witness: process_messages has returned from a receive of no messages,
\* and a message that arrived afterwards waits in the queue undelivered.
C7_Witness ==
    \E c \in Consumers :
       /\ pc[c] = "returned"
       /\ ~recvFault[c]
       /\ nSends = 1
       /\ \E m \in Mids : msgs[m].st = "visible"
       /\ deliv = <<>>

\* C8 (as claimed): no message is being handled by two consumers at once.
C8_NoDualHandling ==
    \A c1 \in Consumers : \A c2 \in Consumers \ {c1} :
       (pc[c1] = "handling" /\ pc[c2] = "handling")
       => deliv[Current(c1)].mid # deliv[Current(c2)].mid

\* C8 (amended): a message has at most one valid receipt token at a time,
\* and a delete removes a message only for the consumer that holds the token
\* of the message's current delivery.
C8_DeleteOnlyOwnDelivery ==
    /\ \A m \in Mids : msgs[m].st = "deleted" => msgs[m].delBy = msgs[m].delOwner
    /\ \A rh1 \in Handles : \A rh2 \in Handles :
          (SvcTokenValid(rh1) /\ SvcTokenValid(rh2)
             /\ deliv[rh1].mid = deliv[rh2].mid) => rh1 = rh2
    /\ \A rh \in Handles :
          (deliv[rh].delRet = "True") => msgs[deliv[rh].mid].st = "deleted"

\* C8 witness: after an expiry a second consumer got the message; the first
\* consumer's delete failed and the message is still the second one's.
C8_Witness ==
    \E rh1 \in Handles : \E rh2 \in Handles :
       /\ deliv[rh1].mid = deliv[rh2].mid
       /\ deliv[rh1].to # deliv[rh2].to
       /\ deliv[rh1].delRet = "False"
       /\ SvcTokenValid(rh2)

C10_RoundTrip ==
    \A rh \in Handles :
       /\ deliv[rh].st # "decodeRaised"
       /\ HandlerEntered(rh) => deliv[rh].arg = msgs[deliv[rh].mid].sent

\* C6 (as claimed): no transport call carries more than the cap, and the
\* result reports an outcome for every message handed over.
C6_CappedAndPerEntry ==
    bCalls # <<>> =>
       /\ \A k \in 1..Len(bCalls) : Len(bCalls[k]) <= SvcBatchCap
       /\ bRet.ty = "response"
       /\ bRet.ok \cup bRet.failed = 0..(Len(bIn) - 1)

\* C6 (amended): send_message_batch makes one transport call that carries
\* all the messages, with Ids 0..n-1; a response it returns names every
\* entry as successful or failed, not both; when the transport refuses the
\* call (as it does above the cap) it returns None, with no outcome per entry.
C6_OneCallAllEntries ==
    bCalls # <<>> =>
       /\ Len(bCalls) = 1
       /\ Len(bCalls[1]) = Len(bIn)
       /\ EntryIds(bCalls[1]) = 0..(Len(bIn) - 1)
       /\ bRet.ty \in {"response", "None"}
       /\ bRet.ty = "response" =>
             /\ bRet.ok \cup bRet.failed = 0..(Len(bIn) - 1)
             /\ bRet.ok \cap bRet.failed = {}
       /\ Len(bIn) > SvcBatchCap => bRet.ty = "None"

\* C6 witness: twelve messages went out in one call and None came back.
C6_Witness ==
    /\ Len(bIn) = 12
    /\ Len(bCalls) = 1
    /\ Len(bCalls[1]) = 12
    /\ bRet.ty = "None"

====
